---- MODULE Spec2Model ----
(***************************************************************************)
(* Model of scripts/generate_phase8_migration.py: the clause optimizer     *)
(* (optimize_clause), the per-policy emitter (generate_policy_sql) and the *)
(* batch run (main).                                                       *)
(*                                                                         *)
(* Text is modelled as sequences of one-character strings, so that the     *)
(* regular-expression substitutions act on characters as re.sub does.      *)
(* The migration document is modelled as the sequence of the pieces the    *)
(* code appends to migration_sql, one item per formatted piece, each item  *)
(* carrying the values interpolated into it.                               *)
(***************************************************************************)
EXTENDS Integers, Sequences, FiniteSets, TLC

VARIABLES
    pc,             \* position of main()
    policies,       \* the list json.load returned
    tables,         \* dict: tablename -> list of policy records
    gi,             \* index of the grouping loop (line 70)
    order,          \* sorted(tables.keys()), the list the outer loop walks
    ti,             \* index into order (line 93)
    pi,             \* index into table_policies (line 99)
    policy,         \* the loop variable `policy`
    using_clause,   \* generate_policy_sql's local (line 44)
    with_check_clause, \* generate_policy_sql's local (line 45)
    sql,            \* what the last call of generate_policy_sql returned
    migration_sql,  \* the document being assembled
    out_file,       \* the output file: untouched, partial or complete, and its content
    writes,         \* how many times the output file was written in full
    console,        \* the messages printed so far
    error,          \* what ended the run, "" while none
    clause,         \* optimizer harness: the argument
    result,         \* optimizer harness: optimize_clause(clause)
    again,          \* optimizer harness: optimize_clause of a string result
    cstage          \* optimizer harness: "input", "once", "twice"

mainVars == <<pc, policies, tables, gi, order, ti, pi, policy, using_clause,
              with_check_clause, sql, migration_sql, out_file, writes, console,
              error>>
clauseVars == <<clause, result, again, cstage>>
vars == <<pc, policies, tables, gi, order, ti, pi, policy, using_clause,
          with_check_clause, sql, migration_sql, out_file, writes, console,
          error, clause, result, again, cstage>>

(***************************************************************************)
(* Bounds                                                                  *)
(***************************************************************************)
\* longest input list of policy records
MaxPolicies == 3
\* most fragments a clause of the optimizer harness is made of
MaxFrags == 3

(***************************************************************************)
(* Text                                                                    *)
(***************************************************************************)
AuthUid == <<"a", "u", "t", "h", ".", "u", "i", "d", "(", ")">>
SelectOpen == <<"(", "S", "E", "L", "E", "C", "T", " ">>
WrappedAuthUid == <<"(", "S", "E", "L", "E", "C", "T", " ", "a", "u", "t", "h", ".", "u", "i", "d", "(", ")", ")">>
HasRole == <<"h", "a", "s", "_", "r", "o", "l", "e">>
IsDevAdmin == <<"i", "s", "_", "d", "e", "v", "_", "a", "d", "m", "i", "n">>
HasPermission == <<"h", "a", "s", "_", "p", "e", "r", "m", "i", "s", "s", "i", "o", "n">>
IsEventManager == <<"i", "s", "_", "e", "v", "e", "n", "t", "_", "m", "a", "n", "a", "g", "e", "r">>
CallArg == <<"(", "a", "u", "t", "h", ".", "u", "i", "d", "(", ")">>
WrappedCallArg == <<"(", "(", "S", "E", "L", "E", "C", "T", " ", "a", "u", "t", "h", ".", "u", "i", "d", "(", ")", ")">>

\* the characters \w matches (str pattern), among those the model uses
WordChars ==
    {"a", "b", "c", "d", "e", "f", "g", "h", "i", "j", "k", "l", "m", "n", "o",
     "p", "q", "r", "s", "t", "u", "v", "w", "x", "y", "z", "A", "B", "C", "D",
     "E", "F", "G", "H", "I", "J", "K", "L", "M", "N", "O", "P", "Q", "R", "S",
     "T", "U", "V", "W", "X", "Y", "Z", "0", "1", "2", "3", "4", "5", "6", "7",
     "8", "9", "_"}

IsWordAt(s, i) == i >= 1 /\ i <= Len(s) /\ s[i] \in WordChars

\* \b at the gap before s[i]: exactly one side is a word character
WordBoundaryAt(s, i) == IsWordAt(s, i - 1) # IsWordAt(s, i)

\* the literal lit occupies s[i .. i+Len(lit)-1]
LiteralAt(lit, s, i) ==
    /\ i >= 1
    /\ i + Len(lit) - 1 <= Len(s)
    /\ \A k \in 1..Len(lit) : s[i + k - 1] = lit[k]

\* (?<!behind) at position i: the text ending right before s[i] is not behind
NotPrecededBy(behind, s, i) == ~LiteralAt(behind, s, i - Len(behind))

(***************************************************************************)
(* re.sub with a literal replacement.  A pattern is                        *)
(*   [behind |-> negative lookbehind text, <<>> for none,                  *)
(*    boundary |-> whether \b precedes the literal,                        *)
(*    lit |-> the literal text, not empty]                                 *)
(* A match starts with the literal's first character: MatchesAt tests that *)
(* first and compares the rest only there.                                 *)
(***************************************************************************)
MatchesAt(pat, s, i) ==
    /\ s[i] = pat.lit[1]
    /\ LiteralAt(pat.lit, s, i)
    /\ pat.boundary => WordBoundaryAt(s, i)
    /\ pat.behind # <<>> => NotPrecededBy(pat.behind, s, i)

RECURSIVE SubFrom(_, _, _, _)
SubFrom(pat, repl, s, i) ==
    IF i > Len(s) THEN <<>>
    ELSE IF MatchesAt(pat, s, i)
         THEN repl \o SubFrom(pat, repl, s, i + Len(pat.lit))
         ELSE <<s[i]>> \o SubFrom(pat, repl, s, i + 1)

\* re.sub(pat, repl, s): leftmost, non-overlapping, over the whole string
ReSub(pat, repl, s) == SubFrom(pat, repl, s, 1)

(***************************************************************************)
(* optimize_clause                                                         *)
(***************************************************************************)
None == [tag |-> "None", val |-> <<>>]
Str(s) == [tag |-> "str", val |-> s]

\* Python truthiness of a clause value: None and "" are falsy
Truthy(v) == v.tag = "str" /\ v.val # <<>>

\* line 23, the pattern without its guard (a mutant)
AuthUidPatternUnguarded == [behind |-> <<>>, boundary |-> TRUE, lit |-> AuthUid]
\* line 23, the pattern without \b (a mutant)
AuthUidPatternNoBoundary == [behind |-> SelectOpen, boundary |-> FALSE, lit |-> AuthUid]
\* line 23, the pattern refusing every occurrence that follows "(" (a mutant)
AuthUidPatternNotAfterParen == [behind |-> <<"(">>, boundary |-> TRUE, lit |-> AuthUid]

\* line 23: (?<!\(SELECT )\bauth\.uid\(\)
AuthUidPattern == [behind |-> SelectOpen, boundary |-> TRUE, lit |-> AuthUid]

\* lines 26-35: <helper>\(auth\.uid\(\)  ->  <helper>((SELECT auth.uid())
HelperPattern(h) == [behind |-> <<>>, boundary |-> FALSE, lit |-> h \o CallArg]
HelperReplacement(h) == h \o WrappedCallArg

\* line 23, the replacement with the parentheses forgotten (a mutant)
AuthUidReplacementBare == <<"S", "E", "L", "E", "C", "T", " ">> \o AuthUid

\* line 23: the replacement text (SELECT auth.uid())
AuthUidReplacement == WrappedAuthUid

\* line 23 alone
WrapAuthUid(s) == ReSub(AuthUidPattern, AuthUidReplacement, s)

\* lines 23-35, in the code's order
Rewrite(s) ==
    LET s1 == WrapAuthUid(s)
        s2 == ReSub(HelperPattern(HasRole), HelperReplacement(HasRole), s1)
        s3 == ReSub(HelperPattern(IsDevAdmin), HelperReplacement(IsDevAdmin), s2)
        s4 == ReSub(HelperPattern(HasPermission), HelperReplacement(HasPermission), s3)
        s5 == ReSub(HelperPattern(IsEventManager), HelperReplacement(IsEventManager), s4)
    IN  s5

optimize_clause(v) == IF ~Truthy(v) THEN None ELSE Str(Rewrite(v.val))

(***************************************************************************)
(* The optimizer harness: a clause drawn from the bounded inputs, the      *)
(* optimizer applied to it, and applied once more to what it returned.     *)
(***************************************************************************)
Helpers == {HasRole, IsDevAdmin, HasPermission, IsEventManager}

AdminArg == <<",", " ", "'", "a", "d", "m", "i", "n", "'", ")">>

Fragments ==
    {AuthUid, SelectOpen, WrappedAuthUid, AdminArg, <<"(">>, <<" ">>,
     <<"x">>, <<"_">>, <<"9">>, <<"S", "E", "L", "E", "C", "T", " ">>}
    \cup {h \o <<"(">> : h \in Helpers}

RECURSIVE Concat(_)
Concat(ss) == IF ss = <<>> THEN <<>> ELSE Head(ss) \o Concat(Tail(ss))

ClauseTexts ==
    UNION {{Concat(fs) : fs \in [1..n -> Fragments]} : n \in 0..MaxFrags}

ClauseInputs == {None} \cup {Str(s) : s \in ClauseTexts}

InitMain ==
    /\ pc = "load"
    /\ policies = <<>>
    /\ tables = <<>>
    /\ gi = 1
    /\ order = <<>>
    /\ ti = 1
    /\ pi = 1
    /\ policy = <<>>
    /\ using_clause = None
    /\ with_check_clause = None
    /\ sql = <<>>
    /\ migration_sql = <<>>
    /\ out_file = [state |-> "untouched", content |-> <<>>]
    /\ writes = 0
    /\ console = <<>>
    /\ error = ""

InitClause ==
    /\ InitMain
    /\ clause \in ClauseInputs
    /\ result = None
    /\ again = None
    /\ cstage = "input"

Optimize ==
    /\ cstage = "input"
    /\ result' = optimize_clause(clause)
    /\ cstage' = "once"
    /\ UNCHANGED <<clause, again>>
    /\ UNCHANGED mainVars

Reoptimize ==
    /\ cstage = "once"
    /\ again' = optimize_clause(result)
    /\ cstage' = "twice"
    /\ UNCHANGED <<clause, result>>
    /\ UNCHANGED mainVars

NextClause ==
    \/ Optimize
    \/ Reoptimize

SpecClause == InitClause /\ [][NextClause]_vars

(***************************************************************************)
(* Policy records and the inputs of a run                                  *)
(***************************************************************************)
orders == <<"o", "r", "d", "e", "r", "s">>
accounts == <<"a", "c", "c", "o", "u", "n", "t", "s">>
account == <<"a", "c", "c", "o", "u", "n", "t">>
Orders == <<"O", "r", "d", "e", "r", "s">>

\* code points of the characters of the table names
Ord ==
    "O" :> 79 @@ "a" :> 97 @@ "c" :> 99 @@ "d" :> 100 @@ "e" :> 101 @@
    "n" :> 110 @@ "o" :> 111 @@ "r" :> 114 @@ "s" :> 115 @@ "t" :> 116 @@
    "u" :> 117

OwnRow == AuthUid \o <<" ", "=", " ", "u", "s", "e", "r", "_", "i", "d">>
AdminOnly == HasRole \o CallArg \o AdminArg

PolicyKeys == {"tablename", "policyname", "cmd", "using_clause", "with_check_clause"}

Policy(t, n, c, u, w) ==
    [tablename |-> t, policyname |-> n, cmd |-> c, using_clause |-> u,
     with_check_clause |-> w]

\* records with every key: the four combinations of present and absent clauses
FullPolicies ==
    {Policy(orders, "p1", "SELECT", Str(OwnRow), None),
     Policy(orders, "p2", "INSERT", Str(<<>>), Str(AdminOnly)),
     Policy(orders, "p3", "ALL", Str(OwnRow), Str(AdminOnly)),
     Policy(accounts, "p1", "SELECT", Str(OwnRow), None),
     Policy(accounts, "p4", "DELETE", None, Str(<<>>)),
     Policy(Orders, "p3", "ALL", Str(AdminOnly), Str(OwnRow)),
     Policy(account, "p2", "INSERT", None, Str(AdminOnly))}

\* records in which a key is not present in the JSON object
PartialPolicies ==
    {[tablename |-> orders, policyname |-> "p5", cmd |-> "SELECT",
      using_clause |-> Str(OwnRow)],
     [tablename |-> accounts, policyname |-> "p6", cmd |-> "INSERT",
      with_check_clause |-> Str(AdminOnly)],
     [policyname |-> "p7", cmd |-> "SELECT", using_clause |-> None,
      with_check_clause |-> None]}

PolicySet == FullPolicies \cup PartialPolicies

PolicyLists == UNION {[1..n -> PolicySet] : n \in 0..MaxPolicies}

(***************************************************************************)
(* dict, in insertion order: a sequence of <<key, value>> pairs            *)
(***************************************************************************)
DictKeySet(d) == {d[i][1] : i \in 1..Len(d)}
DictHas(d, k) == k \in DictKeySet(d)
DictGet(d, k) == d[CHOOSE i \in 1..Len(d) : d[i][1] = k][2]

\* lines 72-74 with the record put in front of its bucket (a mutant)
DictPrepend(d, k, v) ==
    IF DictHas(d, k)
    THEN [i \in 1..Len(d) |-> IF d[i][1] = k THEN <<k, <<v>> \o d[i][2]>> ELSE d[i]]
    ELSE Append(d, <<k, <<v>>>>)

\* lines 72-74: if k not in d: d[k] = []; d[k].append(v)
DictAppend(d, k, v) ==
    IF DictHas(d, k)
    THEN [i \in 1..Len(d) |-> IF d[i][1] = k THEN <<k, Append(d[i][2], v)>> ELSE d[i]]
    ELSE Append(d, <<k, <<v>>>>)

\* str < str: by code point, a proper prefix first
LexLess(a, b) ==
    \E k \in 1..(Len(a) + 1) :
        /\ \A j \in 1..(k - 1) : j <= Len(b) /\ a[j] = b[j]
        /\ \/ k = Len(a) + 1 /\ Len(b) >= k
           \/ k <= Len(a) /\ k <= Len(b) /\ Ord[a[k]] < Ord[b[k]]

RECURSIVE SortedSeq(_)
SortedSeq(S) ==
    IF S = {} THEN <<>>
    ELSE LET m == CHOOSE x \in S : \A y \in S \ {x} : LexLess(x, y)
         IN  <<m>> \o SortedSeq(S \ {m})

\* line 93 without sorted(): the keys in insertion order (a mutant)
KeysUnsorted(d) == [i \in 1..Len(d) |-> d[i][1]]

\* line 93: sorted(tables.keys())
SortedKeys(d) == SortedSeq(DictKeySet(d))

(***************************************************************************)
(* generate_policy_sql                                                     *)
(***************************************************************************)
\* lines 41-45 raise KeyError unless every key is present
HasAllKeys(p) == PolicyKeys \subseteq DOMAIN p

\* lines 47-57 with WITH CHECK emitted only under a USING block (a mutant)
StatementNested(p, uc, wc) ==
    <<[kind |-> "drop", policyname |-> p.policyname, tablename |-> p.tablename],
      [kind |-> "create", policyname |-> p.policyname],
      [kind |-> "on", tablename |-> p.tablename, cmd |-> p.cmd]>>
    \o (IF Truthy(uc)
        THEN <<[kind |-> "using", text |-> uc.val]>>
             \o (IF Truthy(wc) THEN <<[kind |-> "with_check", text |-> wc.val]>> ELSE <<>>)
        ELSE <<>>)
    \o <<[kind |-> "end"]>>

\* lines 47-57: the statement, from the record and the two optimized clauses
Statement(p, uc, wc) ==
    <<[kind |-> "drop", policyname |-> p.policyname, tablename |-> p.tablename],
      [kind |-> "create", policyname |-> p.policyname],
      [kind |-> "on", tablename |-> p.tablename, cmd |-> p.cmd]>>
    \o (IF Truthy(uc) THEN <<[kind |-> "using", text |-> uc.val]>> ELSE <<>>)
    \o (IF Truthy(wc) THEN <<[kind |-> "with_check", text |-> wc.val]>> ELSE <<>>)
    \o <<[kind |-> "end"]>>

generate_policy_sql(p) ==
    Statement(p, optimize_clause(p.using_clause), optimize_clause(p.with_check_clause))

(***************************************************************************)
(* main                                                                    *)
(***************************************************************************)
\* line 90 with the two numbers exchanged (a mutant)
HeaderItemSwapped(ps, d) ==
    [kind |-> "header", count |-> Len(d), table_count |-> Len(ps)]

\* lines 77-90
HeaderItem(ps, d) ==
    [kind |-> "header", count |-> Len(ps), table_count |-> Len(d)]

\* lines 95-97
BannerItem(t, table_policies) ==
    [kind |-> "banner", tablename |-> t, count |-> Len(table_policies)]

\* line 101
BlankItem == [kind |-> "blank"]

\* lines 104-125
FooterItem == [kind |-> "footer"]

CompletionMessage == "Migration generated successfully!"

\* lines 63-66
Load ==
    /\ pc = "load"
    /\ \E ps \in PolicyLists : policies' = ps
    /\ console' = Append(console, [msg |-> "Found", n |-> Len(policies')])
    /\ gi' = 1
    /\ pc' = "group"
    /\ UNCHANGED <<tables, order, ti, pi, policy, using_clause, with_check_clause,
                   sql, migration_sql, out_file, writes, error>>
    /\ UNCHANGED clauseVars

\* lines 63-64: open or json.load raises
LoadFail ==
    /\ pc = "load"
    /\ pc' = "failed"
    /\ error' = "load"
    /\ UNCHANGED <<policies, tables, gi, order, ti, pi, policy, using_clause,
                   with_check_clause, sql, migration_sql, out_file, writes, console>>
    /\ UNCHANGED clauseVars

\* lines 70-74, one iteration
GroupStep ==
    /\ pc = "group"
    /\ gi <= Len(policies)
    /\ "tablename" \in DOMAIN policies[gi]
    /\ policy' = policies[gi]
    /\ tables' = DictAppend(tables, policy'.tablename, policy')
    /\ gi' = gi + 1
    /\ UNCHANGED <<pc, policies, order, ti, pi, using_clause, with_check_clause,
                   sql, migration_sql, out_file, writes, console, error>>
    /\ UNCHANGED clauseVars

\* line 71: policy['tablename'] raises KeyError
GroupFail ==
    /\ pc = "group"
    /\ gi <= Len(policies)
    /\ "tablename" \notin DOMAIN policies[gi]
    /\ policy' = policies[gi]
    /\ pc' = "failed"
    /\ error' = "KeyError"
    /\ UNCHANGED <<policies, tables, gi, order, ti, pi, using_clause,
                   with_check_clause, sql, migration_sql, out_file, writes, console>>
    /\ UNCHANGED clauseVars

\* lines 77-93: the header, and the sorted key list the loop walks
Header ==
    /\ pc = "group"
    /\ gi > Len(policies)
    /\ migration_sql' = <<HeaderItem(policies, tables)>>
    /\ order' = SortedKeys(tables)
    /\ ti' = 1
    /\ pc' = "tables"
    /\ UNCHANGED <<policies, tables, gi, pi, policy, using_clause, with_check_clause,
                   sql, out_file, writes, console, error>>
    /\ UNCHANGED clauseVars

\* lines 93-97: the next table's banner
Banner ==
    /\ pc = "tables"
    /\ ti <= Len(order)
    /\ migration_sql' =
          Append(migration_sql, BannerItem(order[ti], DictGet(tables, order[ti])))
    /\ pi' = 1
    /\ pc' = "policies"
    /\ UNCHANGED <<policies, tables, gi, order, ti, policy, using_clause,
                   with_check_clause, sql, out_file, writes, console, error>>
    /\ UNCHANGED clauseVars

\* lines 99-101, one iteration: generate_policy_sql returns
RenderPolicy ==
    /\ pc = "policies"
    /\ LET table_policies == DictGet(tables, order[ti])
       IN  /\ pi <= Len(table_policies)
           /\ HasAllKeys(table_policies[pi])
           /\ policy' = table_policies[pi]
           /\ using_clause' = optimize_clause(policy'.using_clause)
           /\ with_check_clause' = optimize_clause(policy'.with_check_clause)
           /\ sql' = Statement(policy', using_clause', with_check_clause')
           /\ migration_sql' = migration_sql \o sql' \o <<BlankItem>>
           /\ IF pi < Len(table_policies)
              THEN pi' = pi + 1 /\ UNCHANGED <<ti, pc>>
              ELSE pi' = 1 /\ ti' = ti + 1 /\ pc' = "tables"
    /\ UNCHANGED <<policies, tables, gi, order, out_file, writes, console, error>>
    /\ UNCHANGED clauseVars

\* lines 41-45: a key of the record is missing, generate_policy_sql raises KeyError
RenderFail ==
    /\ pc = "policies"
    /\ LET table_policies == DictGet(tables, order[ti])
       IN  /\ pi <= Len(table_policies)
           /\ ~HasAllKeys(table_policies[pi])
           /\ policy' = table_policies[pi]
    /\ sql' = <<>>
    /\ pc' = "failed"
    /\ error' = "KeyError"
    /\ UNCHANGED <<policies, tables, gi, order, ti, pi, using_clause,
                   with_check_clause, migration_sql, out_file, writes, console>>
    /\ UNCHANGED clauseVars

\* lines 104-125
Footer ==
    /\ pc = "tables"
    /\ ti > Len(order)
    /\ migration_sql' = Append(migration_sql, FooterItem)
    /\ pc' = "write"
    /\ UNCHANGED <<policies, tables, gi, order, ti, pi, policy, using_clause,
                   with_check_clause, sql, out_file, writes, console, error>>
    /\ UNCHANGED clauseVars

\* lines 129-130
WriteOk ==
    /\ pc = "write"
    /\ out_file' = [state |-> "complete", content |-> migration_sql]
    /\ writes' = writes + 1
    /\ pc' = "report"
    /\ UNCHANGED <<policies, tables, gi, order, ti, pi, policy, using_clause,
                   with_check_clause, sql, migration_sql, console, error>>
    /\ UNCHANGED clauseVars

\* line 129 with the error swallowed and the run going on (a mutant)
WriteFailOpenIgnored ==
    /\ pc = "write"
    /\ pc' = "report"
    /\ error' = "write"
    /\ UNCHANGED <<policies, tables, gi, order, ti, pi, policy, using_clause,
                   with_check_clause, sql, migration_sql, out_file, writes, console>>
    /\ UNCHANGED clauseVars

\* line 129: open(output_path, 'w') raises, the file is not touched
WriteFailOpen ==
    /\ pc = "write"
    /\ pc' = "failed"
    /\ error' = "write"
    /\ UNCHANGED <<policies, tables, gi, order, ti, pi, policy, using_clause,
                   with_check_clause, sql, migration_sql, out_file, writes, console>>
    /\ UNCHANGED clauseVars

\* line 130: the file was opened (truncated) and the write raises part-way
WriteFailWrite ==
    /\ pc = "write"
    /\ \E n \in 0..(Len(migration_sql) - 1) :
          out_file' = [state |-> "partial", content |-> SubSeq(migration_sql, 1, n)]
    /\ pc' = "failed"
    /\ error' = "write"
    /\ UNCHANGED <<policies, tables, gi, order, ti, pi, policy, using_clause,
                   with_check_clause, sql, migration_sql, writes, console>>
    /\ UNCHANGED clauseVars

\* lines 132-135
Report ==
    /\ pc = "report"
    /\ console' = console \o
          <<[msg |-> CompletionMessage],
            [msg |-> "Output"],
            [msg |-> "Tables", n |-> Len(tables)],
            [msg |-> "Policies", n |-> Len(policies)]>>
    /\ pc' = "done"
    /\ UNCHANGED <<policies, tables, gi, order, ti, pi, policy, using_clause,
                   with_check_clause, sql, migration_sql, out_file, writes, error>>
    /\ UNCHANGED clauseVars

Init ==
    /\ InitMain
    /\ clause = None
    /\ result = None
    /\ again = None
    /\ cstage = "input"

Next ==
    \/ Load
    \/ LoadFail
    \/ GroupStep
    \/ GroupFail
    \/ Header
    \/ Banner
    \/ RenderPolicy
    \/ RenderFail
    \/ Footer
    \/ WriteOk
    \/ WriteFailOpen
    \/ WriteFailWrite
    \/ Report

Spec == Init /\ [][Next]_vars

(***************************************************************************)
(* Claims about optimize_clause (checked under SpecClause)                 *)
(***************************************************************************)
Occurrences(lit, s) == {i \in 1..Len(s) : LiteralAt(lit, s, i)}
Contains(lit, s) == Occurrences(lit, s) # {}
DoubleWrap == SelectOpen \o WrappedAuthUid \o <<")">>

\* the occurrences of auth.uid() in s that line 23 is to wrap: those neither
\* right after "(SELECT " nor right after a word character
Eligible(s) ==
    {i \in Occurrences(AuthUid, s) :
        /\ ~LiteralAt(SelectOpen, s, i - Len(SelectOpen))
        /\ ~IsWordAt(s, i - 1)}

\* out is s with exactly the occurrences at the positions E replaced by
\* (SELECT auth.uid()), every other character kept in place and in order
ReplacedExactly(E, s, out) ==
    LET grow == Len(WrappedAuthUid) - Len(AuthUid)
        before(j) == Cardinality({e \in E : e + Len(AuthUid) <= j})
        inside(j) == Cardinality({e \in E : e <= j /\ j < e + Len(AuthUid)})
        at(j) == j + grow * before(j) + Len(SelectOpen) * inside(j)
    IN  /\ Len(out) = Len(s) + grow * Cardinality(E)
        /\ \A j \in 1..Len(s) : out[at(j)] = s[j]
        /\ \A e \in E : LiteralAt(WrappedAuthUid, out, e + grow * before(e))

\* C1: optimize_clause is idempotent: applied to its own (string) result it
\* returns that result unchanged; and it never produces
\* (SELECT (SELECT auth.uid())) in a clause that did not contain it.
Thm_C1_Idempotent ==
    /\ cstage = "twice" => again = result
    /\ (cstage # "input" /\ Truthy(clause) /\ ~Contains(DoubleWrap, clause.val))
          => ~Contains(DoubleWrap, result.val)

\* C1 witness: a clause holding both a wrapped and a bare auth.uid() went
\* through the optimizer twice, and the first pass changed it
Wit_C1 ==
    /\ cstage = "twice"
    /\ Truthy(clause)
    /\ Contains(WrappedAuthUid, clause.val)
    /\ Eligible(clause.val) # {}
    /\ result # clause

\* C2 as stated: in the result every occurrence of auth.uid() is immediately
\* preceded by "(SELECT ", whatever character preceded it in the clause.
Cex_C2_EveryOccurrenceWrapped ==
    (cstage # "input" /\ Truthy(clause)) =>
        \A i \in Occurrences(AuthUid, result.val) :
            LiteralAt(SelectOpen, result.val, i - Len(SelectOpen))

\* C2 amended: optimize_clause replaces exactly the occurrences of auth.uid()
\* that are neither immediately preceded by "(SELECT " nor immediately
\* preceded by a word character (letter, digit, underscore), and nothing
\* else; so in the result every occurrence is immediately preceded by
\* "(SELECT " or by a word character.
Thm_C2_WrapsEligibleOccurrences ==
    (cstage # "input" /\ Truthy(clause)) =>
        /\ ReplacedExactly(Eligible(clause.val), clause.val, result.val)
        /\ \A i \in Occurrences(AuthUid, result.val) :
              \/ LiteralAt(SelectOpen, result.val, i - Len(SelectOpen))
              \/ IsWordAt(result.val, i - 1)

\* C2 witness: one occurrence after a word character was left alone and
\* another, after a non-word character, was wrapped
Wit_C2 ==
    /\ cstage = "once"
    /\ Truthy(clause)
    /\ \E i \in Occurrences(AuthUid, clause.val) : IsWordAt(clause.val, i - 1)
    /\ \E i \in Eligible(clause.val) : i > 1
    /\ \E i \in Occurrences(AuthUid, result.val) :
          /\ IsWordAt(result.val, i - 1)
          /\ ~LiteralAt(SelectOpen, result.val, i - Len(SelectOpen))

Sub(s, a, b) == SubSeq(s, a, b)

\* C3: for each helper h, a clause pre . h(auth.uid() . post becomes
\* opt(pre) . h((SELECT auth.uid()) . opt(post): the call prefix is wrapped
\* once, the helper name kept; and when pre and post hold no auth.uid() they
\* are kept verbatim.
Thm_C3_HelperCallWrappedOnce ==
    (cstage # "input" /\ Truthy(clause)) =>
        \A h \in Helpers :
            \A i \in Occurrences(h \o CallArg, clause.val) :
                LET s == clause.val
                    pre == Sub(s, 1, i - 1)
                    post == Sub(s, i + Len(h) + Len(CallArg), Len(s))
                IN  /\ result.val = Rewrite(pre) \o h \o WrappedCallArg \o Rewrite(post)
                    /\ (~Contains(AuthUid, pre) /\ ~Contains(AuthUid, post))
                          => result.val = pre \o h \o WrappedCallArg \o post
                    /\ ~Contains(h \o <<"(">> \o DoubleWrap, result.val)
                          \/ Contains(DoubleWrap, s)

\* C3 witness: has_role(auth.uid(), 'admin') became
\* has_role((SELECT auth.uid()), 'admin')
Wit_C3 ==
    /\ cstage = "once"
    /\ clause = Str(HasRole \o CallArg \o AdminArg)
    /\ result = Str(HasRole \o WrappedCallArg \o AdminArg)

\* C10: the helper-specific rules never change the text: optimize_clause
\* returns the result of the first substitution alone, in which no
\* <helper>(auth.uid() remains.
Thm_C10_HelperRulesNeverFire ==
    (cstage # "input" /\ Truthy(clause)) =>
        LET first == WrapAuthUid(clause.val)
        IN  /\ result.val = first
            /\ \A h \in Helpers : ~Contains(h \o CallArg, first)

\* C10 witness: the clause held a helper call on a bare auth.uid()
Wit_C10 ==
    /\ cstage = "once"
    /\ Truthy(clause)
    /\ \E h \in Helpers : Contains(h \o CallArg, clause.val)
    /\ result # clause

(***************************************************************************)
(* Claims about generate_policy_sql and main (checked under Spec)          *)
(***************************************************************************)
\* the document as written to the output file by a run that completed
Emitted == out_file.state = "complete"
Doc == out_file.content

IsBanner(it) == it.kind = "banner"
IsDrop(it) == it.kind = "drop"
Banners(doc) == SelectSeq(doc, IsBanner)
HasKind(items, k) == \E i \in 1..Len(items) : items[i].kind = k
TableNames(ps) == {ps[i].tablename : i \in 1..Len(ps)}
RecordsOf(ps, t) == LET OfTable(p) == p.tablename = t IN SelectSeq(ps, OfTable)

RECURSIVE SumCounts(_)
SumCounts(bs) == IF bs = <<>> THEN 0 ELSE Head(bs).count + SumCounts(Tail(bs))

\* the items between the banner of table t and the next banner or the footer
Section(doc, t) ==
    LET bi == CHOOSE i \in 1..Len(doc) : IsBanner(doc[i]) /\ doc[i].tablename = t
        stops == {i \in (bi + 1)..Len(doc) : doc[i].kind \in {"banner", "footer"}}
        end == CHOOSE i \in stops : \A j \in stops : i <= j
    IN  SubSeq(doc, bi + 1, end - 1)

RECURSIVE Renderings(_)
Renderings(ps) ==
    IF ps = <<>> THEN <<>>
    ELSE generate_policy_sql(Head(ps)) \o <<BlankItem>> \o Renderings(Tail(ps))

\* C4: optimize_clause returns None for a null or empty clause, and the
\* statement holds a USING block iff using_clause is non-empty and a WITH
\* CHECK block iff with_check_clause is non-empty, each decided on its own.
Thm_C4_BlocksFollowClauses ==
    sql # <<>> =>
        /\ HasAllKeys(policy)
        /\ ~Truthy(policy.using_clause) => using_clause = None
        /\ ~Truthy(policy.with_check_clause) => with_check_clause = None
        /\ HasKind(sql, "using") <=> Truthy(policy.using_clause)
        /\ HasKind(sql, "with_check") <=> Truthy(policy.with_check_clause)
        /\ Cardinality({i \in 1..Len(sql) : sql[i].kind \in {"using", "with_check"}})
              = (IF Truthy(policy.using_clause) THEN 1 ELSE 0)
                + (IF Truthy(policy.with_check_clause) THEN 1 ELSE 0)

\* C4 witness: a record with an empty using_clause and a with_check_clause
\* was rendered with a WITH CHECK block and no USING block
Wit_C4 ==
    /\ sql # <<>>
    /\ policy.using_clause = Str(<<>>)
    /\ Truthy(policy.with_check_clause)
    /\ using_clause = None
    /\ HasKind(sql, "with_check")
    /\ ~HasKind(sql, "using")

\* C5: the emitted document holds exactly one banner per distinct tablename
\* of the input, and the banners are in lexicographic order of table name.
Thm_C5_BannersSortedOnePerTable ==
    Emitted =>
        LET b == Banners(Doc)
        IN  /\ {b[i].tablename : i \in 1..Len(b)} = TableNames(policies)
            /\ Len(b) = Cardinality(TableNames(policies))
            /\ \A i \in 1..Len(b) : \A j \in 1..Len(b) :
                  i < j => LexLess(b[i].tablename, b[j].tablename)

\* C5 witness: the tables came in the order orders, accounts, Orders and the
\* banners are Orders, accounts, orders
Wit_C5 ==
    /\ Emitted
    /\ Len(policies) = 3
    /\ policies[1].tablename = orders
    /\ policies[2].tablename = accounts
    /\ policies[3].tablename = Orders
    /\ [i \in 1..Len(Banners(Doc)) |-> Banners(Doc)[i].tablename]
          = <<Orders, accounts, orders>>

\* C6: the header reports the number of input records and of distinct
\* table names, each banner the number of input records of its table, and
\* the banner counts sum to the number of input records.
Thm_C6_CountsReported ==
    Emitted =>
        LET b == Banners(Doc)
        IN  /\ Doc[1].kind = "header"
            /\ Doc[1].count = Len(policies)
            /\ Doc[1].table_count = Cardinality(TableNames(policies))
            /\ \A i \in 1..Len(b) :
                  b[i].count = Cardinality({k \in 1..Len(policies) :
                                              policies[k].tablename = b[i].tablename})
            /\ SumCounts(b) = Len(policies)

\* C6 witness: two records on orders and one on accounts: 3 policies, 2 tables
Wit_C6 ==
    /\ Emitted
    /\ Len(policies) = 3
    /\ Len(RecordsOf(policies, orders)) = 2
    /\ Len(RecordsOf(policies, accounts)) = 1
    /\ Doc[1] = [kind |-> "header", count |-> 3, table_count |-> 2]

\* C7 as stated: a record whose using_clause or with_check_clause key is
\* not present is accepted, so a run never ends in KeyError on a record that
\* has its tablename, policyname and cmd.
Cex_C7_AbsentClauseKeyAccepted ==
    (pc = "failed" /\ error = "KeyError") =>
        ~({"tablename", "policyname", "cmd"} \subseteq DOMAIN policy)

HasCompletionMessage == \E i \in 1..Len(console) : console[i].msg = CompletionMessage

\* C8: the output file is written at most once and only after the input
\* was loaded and every record grouped and rendered; a failure to load, to
\* group or to render leaves the file untouched and prints no completion
\* message; a failure to write prints no completion message.
Thm_C8_OutputOnlyAfterTransformation ==
    /\ writes <= 1
    /\ out_file.state # "untouched" =>
          /\ pc \in {"report", "done"} \/ (pc = "failed" /\ error = "write")
          /\ gi = Len(policies) + 1
          /\ Len(SelectSeq(migration_sql, IsDrop)) = Len(policies)
          /\ migration_sql[Len(migration_sql)] = FooterItem
    /\ out_file.state = "complete" => (writes = 1 /\ out_file.content = migration_sql)
    /\ error \in {"load", "KeyError"} =>
          (pc = "failed" /\ out_file.state = "untouched" /\ ~HasCompletionMessage)
    /\ error = "write" => (pc = "failed" /\ ~HasCompletionMessage)
    /\ HasCompletionMessage => (pc = "done" /\ out_file.state = "complete")

\* C8 witness: a run that failed while rendering, after part of the
\* document was assembled, with the output file untouched
Wit_C8 ==
    /\ pc = "failed"
    /\ error = "KeyError"
    /\ gi = Len(policies) + 1
    /\ HasKind(migration_sql, "drop")
    /\ out_file.state = "untouched"
    /\ ~HasCompletionMessage

\* C9: under the banner of each table stand exactly the renderings of the
\* input records of that table, in input order; every input record is
\* rendered once in the whole document, as a DROP immediately followed by
\* the CREATE for the same policyname and tablename.
Thm_C9_SectionsKeepInputOrder ==
    Emitted =>
        /\ \A t \in TableNames(policies) :
              /\ Section(Doc, t) = Renderings(RecordsOf(policies, t))
              /\ LET drops == SelectSeq(Section(Doc, t), IsDrop)
                     recs == RecordsOf(policies, t)
                 IN  /\ Len(drops) = Len(recs)
                     /\ \A i \in 1..Len(drops) :
                           /\ drops[i].policyname = recs[i].policyname
                           /\ drops[i].tablename = t
        /\ Len(SelectSeq(Doc, IsDrop)) = Len(policies)
        /\ \A i \in 1..Len(Doc) :
              IsDrop(Doc[i]) =>
                  /\ Doc[i + 1].kind = "create"
                  /\ Doc[i + 1].policyname = Doc[i].policyname
                  /\ Doc[i + 2].kind = "on"
                  /\ Doc[i + 2].tablename = Doc[i].tablename

\* C9 witness: two different records of one table with a record of another
\* table between them in the input
Wit_C9 ==
    /\ Emitted
    /\ Len(policies) = 3
    /\ policies[1].tablename = policies[3].tablename
    /\ policies[1].tablename # policies[2].tablename
    /\ policies[1].policyname # policies[3].policyname

====
